---- MODULE Spec2Model ----
(***************************************************************************)
(* LiveFeedAI server (main.py): the image description pipeline             *)
(* (hash_image, the lru_cache around get_cached_description,               *)
(* process_image_data), the frame sampler (extract_frames_from_video) with *)
(* its temporary file, the /process-image and /process-video handlers,     *)
(* one call at a time and as coroutines interleaved on the event loop.     *)
(*                                                                         *)
(* Byte strings are sequences: <<>> is b"", <<"jpeg", n>> is the encoding  *)
(* of picture n that PIL can open, <<"junk", n>> is a non-empty string PIL *)
(* cannot identify.  functools is the CPython 3.9+ one, where the wrapper  *)
(* has cache_parameters() and it returns a new dict on every call.         *)
(***************************************************************************)
EXTENDS Integers, Sequences, FiniteSets, TLC

\* ------------------------------------------------------------------------
\* Program constants
\* ------------------------------------------------------------------------
\* @lru_cache(maxsize=100)
maxsize == 100

\* frame_interval: int = 30
default_frame_interval == 30

\* "timestamp": i * 1.0
timestamp_step == 1

\* uvicorn.Config(limit_concurrency=20)
limit_concurrency == 20

\* ------------------------------------------------------------------------
\* Bounds of the model
\* ------------------------------------------------------------------------
\* pictures never described before the first state (beyond the warm ones)
NumNew == 1

\* longest list of shots a video is cut from
MaxShots == 2

\* largest frame_interval a direct call of the sampler is given
MaxInterval == 4

\* connections the server is sent requests on at the same time
MaxConn == 2

\* ------------------------------------------------------------------------
\* Values
\* ------------------------------------------------------------------------
\* Strings are sequences of pieces, so that f"...{x}" is \o
None == <<"None">>

EmptyBytes == << >>

Jpeg(n) == <<"jpeg", n>>

Junk(n) == <<"junk", n>>

\* Image.open(io.BytesIO(image_data)) succeeds
Decodable(image_data) == Len(image_data) > 0 /\ image_data[1] = "jpeg"

\* Python truth value of a str-or-None
Truthy(x) == x # None /\ x # << >> /\ x # <<"">>

\* hashlib.md5(image_data).hexdigest(): one digest per byte string
hash_image(image_data) == <<"md5", image_data>>

\* processor/model.generate/decode/replace/strip on a decodable image:
\* do_sample=False, so the text is a function of the image
generate(image_data) == <<"description of", image_data>>

\* ------------------------------------------------------------------------
\* functools.lru_cache(maxsize=100) around get_cached_description.
\* The cache is the sequence of its entries, least recently used first.
\* ------------------------------------------------------------------------
CacheKeys(c) == {c[i].key : i \in DOMAIN c}

IndexOf(c, k) == CHOOSE i \in DOMAIN c : c[i].key = k

RemoveAt(c, i) == SubSeq(c, 1, i - 1) \o SubSeq(c, i + 1, Len(c))

\* the decorated body: "return None"
get_cached_description_body(image_hash) == None

\* mutant: a full cache keeps growing
lru_cache_miss_no_evict(c, e) == Append(c, e)

\* miss: the oldest entry makes room when the cache is full
lru_cache_miss(c, e) ==
    IF Len(c) >= maxsize THEN Append(Tail(c), e) ELSE Append(c, e)

\* mutant: a hit leaves the order alone (insertion order, FIFO)
lru_cache_hit_no_promote(c, i) == c

\* hit: the entry becomes the most recently used
lru_cache_hit(c, i) == Append(RemoveAt(c, i), c[i])

InCache(c, k) == \E i \in DOMAIN c : c[i].key = k

get_cached_description(c, image_hash) ==
    IF InCache(c, image_hash)
    THEN LET i == IndexOf(c, image_hash)
         IN  [result |-> c[i].result, cache |-> lru_cache_hit(c, i)]
    ELSE LET result == get_cached_description_body(image_hash)
         IN  [result |-> result,
              cache  |-> lru_cache_miss(c, [key |-> image_hash, result |-> result])]

\* get_cached_description.cache_parameters(): a new dict on every call
cache_parameters == [maxsize |-> maxsize, typed |-> FALSE]

\* "Store in cache": the item assignment lands in the dict cache_parameters()
\* has just built, which nothing refers to afterwards; the lru_cache is as
\* it was
store_in_cache(c, image_hash, description) ==
    LET params == cache_parameters
        written == [k \in (DOMAIN params) \cup {image_hash} |->
                       IF k = image_hash THEN description ELSE params[k]]
    IN  c

\* ------------------------------------------------------------------------
\* process_image_data
\* ------------------------------------------------------------------------
\* What a call leaves behind: whether it raised, the value returned (or the
\* message of the exception), the cache, the number of engine invocations and
\* the keys get_cached_description was called with
Return(value, c, n, keys) ==
    [raised |-> FALSE, value |-> value, cache |-> c, inferences |-> n, lookups |-> keys]

Raise(message, c, n, keys) ==
    [raised |-> TRUE, value |-> message, cache |-> c, inferences |-> n, lookups |-> keys]

ErrorMarker(message) == <<"Error: Failed to process image - ">> \o message

\* mutant: no check for empty input
not_image_data_unchecked(image_data) == FALSE

\* "if not image_data"
not_image_data(image_data) == Len(image_data) = 0

\* from "if cached_result:" to the end of the try block, `looked` being what
\* get_cached_description answered; engine_ok: the inference engine answers
process_image_data_looked(image_data, image_hash, looked, engine_ok) ==
    IF Truthy(looked.result) THEN Return(looked.result, looked.cache, 0, <<image_hash>>)
    ELSE IF ~Decodable(image_data)
    THEN Raise(<<"cannot identify image file">>, looked.cache, 0, <<image_hash>>)
    ELSE IF ~engine_ok THEN Raise(<<"inference failed">>, looked.cache, 1, <<image_hash>>)
    ELSE Return(generate(image_data),
                store_in_cache(looked.cache, image_hash, generate(image_data)),
                1, <<image_hash>>)

\* the try block
process_image_data_try(image_data, c, engine_ok) ==
    IF not_image_data(image_data) THEN Raise(<<"Image data is empty">>, c, 0, << >>)
    ELSE process_image_data_looked(image_data, hash_image(image_data),
             get_cached_description(c, hash_image(image_data)), engine_ok)

\* mutant: the exception leaves the function
process_image_data_except_reraise(r) == r

\* mutant: the error marker is stored under the key that was looked up
process_image_data_except_caching(r) ==
    IF r.raised
    THEN Return(ErrorMarker(r.value),
                [i \in DOMAIN r.cache |->
                    IF r.lookups # << >> /\ r.cache[i].key = r.lookups[1]
                    THEN [key |-> r.cache[i].key, result |-> ErrorMarker(r.value)]
                    ELSE r.cache[i]],
                r.inferences, r.lookups)
    ELSE r

\* "except Exception as e": the error marker is returned
process_image_data_except(r) ==
    IF r.raised THEN Return(ErrorMarker(r.value), r.cache, r.inferences, r.lookups) ELSE r

process_image_data(image_data, c, engine_ok) ==
    process_image_data_except(process_image_data_try(image_data, c, engine_ok))

\* ------------------------------------------------------------------------
\* extract_frames_from_video
\* Video bytes are [empty, opens, frames]: whether they are b"", whether
\* cv2.VideoCapture opens the file written from them, and the pictures
\* video.read() hands out, in container order.
\* What the file system does to the temporary file of one call is
\* [create, write, close, unlink]: whether NamedTemporaryFile makes the file,
\* temp_file.write succeeds, leaving the with block (flush and close)
\* succeeds, os.unlink succeeds.
\* ------------------------------------------------------------------------
Picture(n) == <<"picture", n>>

Blank == <<"blank">>

\* a picture cv2.cvtColor raises cv2.error on
Broken == <<"broken">>

\* cv2.cvtColor + cv2.imencode(".jpg", ...) + buffer.tobytes(); the success
\* flag imencode returns is dropped ("_"), so a picture it cannot encode
\* goes on as its empty buffer
imencode(picture) == IF picture[1] = "blank" THEN EmptyBytes ELSE Jpeg(picture[2])

\* the with block: tempfile.NamedTemporaryFile(delete=False, suffix=".mov"),
\* temp_file.write(video_data), temp_file_path = temp_file.name, close.
\* created: the file is on disk; bound: temp_file_path is assigned
temp_file(fs) ==
    IF ~fs.create
    THEN [raised |-> TRUE, value |-> <<"[Errno 2] No usable temporary directory found">>,
          created |-> FALSE, bound |-> FALSE]
    ELSE IF ~fs.write
    THEN [raised |-> TRUE, value |-> <<"[Errno 28] No space left on device">>,
          created |-> TRUE, bound |-> FALSE]
    ELSE IF ~fs.close
    THEN [raised |-> TRUE, value |-> <<"[Errno 28] No space left on device">>,
          created |-> TRUE, bound |-> TRUE]
    ELSE [raised |-> FALSE, value |-> None, created |-> TRUE, bound |-> TRUE]

\* 'temp_file_path' in locals()
temp_file_path_in_locals(t) == t.bound

\* the finally block, t being what the with block did: whether os.unlink was
\* called, whether its failure was logged ("Failed to delete temp file"),
\* whether the file is still on disk when the call is over
finally_unlink(t, fs) ==
    [created |-> t.created,
     attempted |-> temp_file_path_in_locals(t),
     failed |-> temp_file_path_in_locals(t) /\ ~fs.unlink,
     left |-> t.created /\ ~(temp_file_path_in_locals(t) /\ fs.unlink)]

\* no call of the sampler, no temporary file
NoTemp == [created |-> FALSE, attempted |-> FALSE, failed |-> FALSE, left |-> FALSE]

\* mutant: the counter is compared against the interval off by one
is_sampled_off_by_one(frame_count, frame_interval) ==
    (frame_count + 1) % frame_interval = 0

\* frame_count % frame_interval == 0
is_sampled(frame_count, frame_interval) == frame_count % frame_interval = 0

\* the loop over the sampled positions `log`, left at the first picture
\* cvtColor raises on: the positions logged so far and the exception
read_loop_sampled(video, log) ==
    IF \E j \in DOMAIN log : video.frames[log[j] + 1] = Broken
    THEN [raised |-> TRUE, value |-> <<"OpenCV: error in function 'cvtColor'">>,
          log |-> SubSeq(log, 1, CHOOSE j \in DOMAIN log :
                                     /\ video.frames[log[j] + 1] = Broken
                                     /\ \A i \in 1..(j - 1) : video.frames[log[i] + 1] # Broken)]
    ELSE [raised |-> FALSE,
          value |-> [j \in 1..Len(log) |-> imencode(video.frames[log[j] + 1])],
          log |-> log]

\* the while loop: video.read() hands out the pictures one by one,
\* frame_count running from 0; the positions for which is_sampled holds are
\* logged ("Extracting frame n") and their pictures encoded and appended, in
\* this order.  A frame_interval of 0 makes the first "%" raise.
read_loop(video, frame_interval) ==
    IF Len(video.frames) > 0 /\ frame_interval = 0
    THEN [raised |-> TRUE, value |-> <<"integer modulo by zero">>, log |-> << >>]
    ELSE read_loop_sampled(video,
             SelectSeq([n \in 1..Len(video.frames) |-> n - 1],
                       LAMBDA frame_count : is_sampled(frame_count, frame_interval)))

\* mutant: the exception leaves the function as it was raised
extract_frames_except_unwrapped(r) == r

\* "except Exception as e": logged and raised again with a prefix
extract_frames_except(r) ==
    IF r.raised THEN [r EXCEPT !.value = <<"Failed to extract frames: ">> \o r.value] ELSE r

\* the try block, t being what the with block did
extract_frames_try(video, frame_interval, t) ==
    IF t.raised THEN [raised |-> TRUE, value |-> t.value, log |-> << >>]
    ELSE IF ~video.opens
    THEN [raised |-> TRUE, value |-> <<"Failed to open video file">>, log |-> << >>]
    ELSE read_loop(video, frame_interval)

\* mutant: a failure of os.unlink leaves the function
extract_frames_finally_propagates(r, temp) ==
    IF temp.failed
    THEN [raised |-> TRUE, value |-> <<"[Errno 13] Permission denied">>, log |-> r.log,
          temp |-> temp]
    ELSE [raised |-> r.raised, value |-> r.value, log |-> r.log, temp |-> temp]

\* the finally block has run: the outcome r of try/except stands, a failure
\* of os.unlink is logged only
extract_frames_finally(r, temp) ==
    [raised |-> r.raised, value |-> r.value, log |-> r.log, temp |-> temp]

extract_frames_from_video(video, frame_interval, fs) ==
    extract_frames_finally(
        extract_frames_except(extract_frames_try(video, frame_interval, temp_file(fs))),
        finally_unlink(temp_file(fs), fs))

\* ------------------------------------------------------------------------
\* POST /process-video
\* An upload is [content_type, filename, data]: content_type is
\* <<type with its slash, subtype>>, or None when the part has no
\* Content-Type header; filename is <<stem, suffix>>; data is video bytes.
\* ------------------------------------------------------------------------
Lower(suffix) ==
    CASE suffix = ".MOV" -> ".mov"
      [] suffix = ".MP4" -> ".mp4"
      [] suffix = ".AVI" -> ".avi"
      [] OTHER -> suffix

\* content_type.startswith("video/") or filename.lower().endswith((...))
is_video(file) ==
    \/ file.content_type[1] = "video/"
    \/ Lower(file.filename[2]) \in {".mp4", ".mov", ".avi"}

JSONResponse(status_code, message) ==
    [status_code |-> status_code, content |-> [error |-> message]]

\* mutant: the timestamp counts decoded frames
timestamp_by_interval(i) == i * default_frame_interval

\* "timestamp": i * 1.0
timestamp(i) == i * timestamp_step

\* mutant: the newest entry goes to the front
add_description_in_front(descriptions, entry) == <<entry>> \o descriptions

\* descriptions.append({...})
add_description(descriptions, entry) == Append(descriptions, entry)

RECURSIVE describe_frames(_, _, _, _, _, _, _)

\* the loop body for frame i (counted from 0), r being what
\* process_image_data did with it
describe_frame(frames, i, r, down, descriptions, inferences, lookups) ==
    IF r.raised
    THEN [raised |-> TRUE, value |-> r.value, cache |-> r.cache, calls |-> i + 1,
          inferences |-> inferences + r.inferences, lookups |-> lookups \o r.lookups]
    ELSE describe_frames(frames, i + 1, r.cache, down,
             add_description(descriptions,
                 [frame |-> i, timestamp |-> timestamp(i), description |-> r.value]),
             inferences + r.inferences, lookups \o r.lookups)

\* for i, frame_data in enumerate(frames): from frame i on; down: the calls
\* (counted from 1) the inference engine fails
describe_frames(frames, i, c, down, descriptions, inferences, lookups) ==
    IF i >= Len(frames)
    THEN [raised |-> FALSE, value |-> descriptions, cache |-> c, calls |-> i,
          inferences |-> inferences, lookups |-> lookups]
    ELSE describe_frame(frames, i, process_image_data(frames[i + 1], c, (i + 1) \notin down),
                        down, descriptions, inferences, lookups)

\* What the handler leaves behind: the response, the cache, whether the
\* sampler was called, whether it returned, the frames it returned and what
\* became of its temporary file, the numbers of process_image_data calls and
\* engine invocations, the keys looked up.
\* Here the handler is left before any frame is described.
NoDescribe(response, c, extracted, frames) ==
    [response |-> response, cache |-> c, called |-> extracted.called,
     sampled |-> extracted.called /\ ~extracted.raised, frames |-> frames,
     temp |-> extracted.temp, calls |-> 0, inferences |-> 0, lookups |-> << >>]

\* the handler is left before extract_frames_from_video is called
NotExtracted == [called |-> FALSE, raised |-> FALSE, temp |-> NoTemp]

\* the loop is over (d.raised: an exception left it, "except Exception as e")
process_video_described(d, extracted) ==
    [response |-> IF d.raised
                  THEN JSONResponse(500, d.value)
                  ELSE [status_code |-> 200, content |-> [descriptions |-> d.value]],
     cache |-> d.cache, called |-> TRUE, sampled |-> TRUE, frames |-> extracted.value,
     temp |-> extracted.temp, calls |-> d.calls,
     inferences |-> d.inferences, lookups |-> d.lookups]

\* mutant: an empty list of frames is answered like any other
no_frames_unchecked(frames) == FALSE

\* "if not frames"
no_frames(frames) == Len(frames) = 0

\* from "if not frames:" on, and the except clause for a sampler that raised
process_video_extracted(extracted, c, down) ==
    IF extracted.raised
    THEN NoDescribe(JSONResponse(500, extracted.value), c, extracted, << >>)
    ELSE IF no_frames(extracted.value)
    THEN NoDescribe(JSONResponse(400, <<"No frames extracted">>), c, extracted, << >>)
    ELSE process_video_described(
             describe_frames(extracted.value, 0, c, down, << >>, 0, << >>),
             extracted)

\* extract_frames_from_video(video_data) as the handler calls it
extract_frames_called(r) ==
    [called |-> TRUE, raised |-> r.raised, value |-> r.value, temp |-> r.temp]

\* the handler from "video_data = await file.read()" on.  A part without a
\* Content-Type header has content_type None, and None.startswith raises
\* AttributeError, which the handler's except clause answers
process_video(file, c, down, fs) ==
    IF file.data.empty
    THEN NoDescribe(JSONResponse(400, <<"Empty file received">>), c, NotExtracted, << >>)
    ELSE IF file.content_type = None
    THEN NoDescribe(JSONResponse(500, <<"'NoneType' object has no attribute 'startswith'">>),
                    c, NotExtracted, << >>)
    ELSE IF ~is_video(file)
    THEN NoDescribe(JSONResponse(400, <<"Invalid file type: ">> \o file.content_type),
                    c, NotExtracted, << >>)
    ELSE process_video_extracted(
             extract_frames_called(
                 extract_frames_from_video(file.data, default_frame_interval, fs)),
             c, down)

\* ------------------------------------------------------------------------
\* POST /process-image
\* An upload is [content_type, data]: content_type as above, data is the byte
\* string of the image.
\* ------------------------------------------------------------------------
\* supported_formats = ["image/jpeg", "image/png"]
supported_formats == {<<"image/", "jpeg">>, <<"image/", "png">>}

\* what the handler leaves behind when it is left before process_image_data
NotDescribed(response, c) ==
    [response |-> response, cache |-> c, calls |-> 0, inferences |-> 0, lookups |-> << >>]

\* from "description = process_image_data(image_data)" on, r being what the
\* call did: the description goes out as recognized_text; an exception would
\* be answered by the except clause
process_image_described(r) ==
    [response |-> IF r.raised
                  THEN JSONResponse(500, r.value)
                  ELSE [status_code |-> 200, content |-> [recognized_text |-> r.value]],
     cache |-> r.cache, calls |-> 1, inferences |-> r.inferences, lookups |-> r.lookups]

\* the handler from "image_data = await file.read()" on
process_image(file, c, engine_ok) ==
    IF not_image_data(file.data)
    THEN NotDescribed(JSONResponse(400, <<"Empty file received">>), c)
    ELSE IF file.content_type \notin supported_formats
    THEN NotDescribed(JSONResponse(400, <<"Unsupported file type: ">> \o file.content_type), c)
    ELSE process_image_described(process_image_data(file.data, c, engine_ok))

\* ------------------------------------------------------------------------
\* The server: uvicorn.Server(config).run() serves in the calling process,
\* on one event loop.  A handler is a coroutine: it runs on the loop's thread
\* from one await to the next, and "await file.read()" is the only await of
\* process_image and process_video.
\* A handler task is [pc, route, frames, descriptions, looked]: where it
\* stands ("idle": no request; "reading": suspended in await file.read();
\* "describing": between two process_image_data calls; "inferring": inside
\* model.generate), the byte strings it has to describe, the descriptions it
\* has got, and what get_cached_description answered for the one in progress.
\* ------------------------------------------------------------------------
Idle ==
    [pc |-> "idle", route |-> "none", frames |-> << >>, descriptions |-> << >>,
     looked |-> None]

\* the handlers that hold the loop's thread
on_loop(t) == {c \in DOMAIN t : t[c].pc \in {"describing", "inferring"}}

\* mutant: every handler has a thread of its own
event_loop_free_threaded(t) == TRUE

\* a suspended handler is resumed when the thread is given back, by an
\* await or a return
event_loop_free(t) == on_loop(t) = {}

\* the requests being handled
in_flight(t) == {c \in DOMAIN t : t[c].pc # "idle"}

\* uvicorn answers 503 itself once limit_concurrency requests are in flight
limit_reached(t) == Cardinality(in_flight(t)) >= limit_concurrency

\* what process_image goes on to describe: the body, unless it is rejected
image_frames(file) ==
    IF not_image_data(file.data) \/ file.content_type \notin supported_formats
    THEN << >>
    ELSE <<file.data>>

\* extract_frames_from_video(video_data) as the handler sees it: the frames,
\* none when it raised
frames_or_none(extracted) == IF extracted.raised THEN << >> ELSE extracted.value

\* what process_video goes on to describe: the frames sampled, unless the
\* upload is rejected or the sampler raises
video_frames(file, fs) ==
    IF file.data.empty \/ file.content_type = None \/ ~is_video(file)
    THEN << >>
    ELSE frames_or_none(extract_frames_from_video(file.data, default_frame_interval, fs))

\* process_image_data(image_data) gets as far as model.generate
reaches_engine(image_data, c) == process_image_data(image_data, c, TRUE).inferences = 1

\* the byte string the handler describes next
next_frame(task) == task.frames[Len(task.descriptions) + 1]

\* ------------------------------------------------------------------------
\* Inputs
\* ------------------------------------------------------------------------
\* the byte strings process_image_data is called with directly
Images ==
    {EmptyBytes, Junk(1), Jpeg(1)} \cup {Jpeg(maxsize + n) : n \in 1..NumNew}

UploadPictures == {Picture(1), Picture(maxsize + 1), Blank}

VideoPictures == UploadPictures \cup {Broken}

Shots == UNION {[1..n -> UploadPictures] : n \in 1..MaxShots}

Lasts == {1, 2, 3, default_frame_interval}

\* every shot lasts default_frame_interval frames, the last one `last` frames
Film(shots, last) ==
    [p \in 1..(default_frame_interval * (Len(shots) - 1) + last) |->
        shots[((p - 1) \div default_frame_interval) + 1]]

NoData == [empty |-> TRUE, opens |-> FALSE, frames |-> << >>]

Unopenable == [empty |-> FALSE, opens |-> FALSE, frames |-> << >>]

NoFrames == [empty |-> FALSE, opens |-> TRUE, frames |-> << >>]

\* a picture that converts, then one that does not
BrokenShot == [empty |-> FALSE, opens |-> TRUE, frames |-> Film(<<Picture(1), Broken>>, 1)]

\* the videos uploaded
UploadVideos ==
    {[empty |-> FALSE, opens |-> TRUE, frames |-> Film(shots, 1)] : shots \in Shots}
    \cup {NoFrames, Unopenable, NoData, BrokenShot}

\* the videos the sampler is called with directly
Videos ==
    (UploadVideos \ {NoData})
    \cup {[empty |-> FALSE, opens |-> TRUE, frames |-> Film(<<picture>>, last)] :
             picture \in VideoPictures, last \in Lasts}

TwoShots == [empty |-> FALSE, opens |-> TRUE,
             frames |-> Film(<<Picture(1), Picture(maxsize + 1)>>, 1)]

Uploads ==
    {[content_type |-> <<"video/", "mp4">>, filename |-> <<"clip", ".mp4">>, data |-> v] :
        v \in UploadVideos}
    \cup {[content_type |-> <<"application/", "octet-stream">>,
           filename |-> <<"CLIP", ".MOV">>, data |-> TwoShots],
          [content_type |-> <<"application/", "octet-stream">>,
           filename |-> <<"clip", ".bin">>, data |-> TwoShots],
          [content_type |-> <<"image/", "png">>,
           filename |-> <<"photo", ".png">>, data |-> TwoShots],
          [content_type |-> <<"image/", "png">>,
           filename |-> <<"photo", ".png">>, data |-> NoData],
          [content_type |-> None, filename |-> <<"clip", ".mp4">>, data |-> TwoShots],
          [content_type |-> None, filename |-> <<"clip", ".bin">>, data |-> TwoShots],
          [content_type |-> None, filename |-> <<"clip", ".mp4">>, data |-> NoData]}

FsOk == [create |-> TRUE, write |-> TRUE, close |-> TRUE, unlink |-> TRUE]

\* what can happen to the temporary file: each step of its life failing
\* (what comes after a step that failed is not asked for)
Fs ==
    {FsOk,
     [FsOk EXCEPT !.create = FALSE],
     [FsOk EXCEPT !.write = FALSE],
     [FsOk EXCEPT !.close = FALSE],
     [FsOk EXCEPT !.unlink = FALSE],
     [FsOk EXCEPT !.close = FALSE, !.unlink = FALSE]}

ImageTypes == supported_formats \cup {<<"image/", "gif">>, None}

ImageUploads == {[content_type |-> t, data |-> d] : t \in ImageTypes, d \in Images}

Conns == 1..MaxConn

Routes == {"image", "video"}

\* the uploads sent while other requests are in flight
ServerImages ==
    {file \in ImageUploads :
        /\ file.content_type \in {<<"image/", "jpeg">>, <<"image/", "gif">>}
        /\ file.data \in {EmptyBytes, Junk(1), Jpeg(1)}}

ServerVideos ==
    {file \in Uploads :
        /\ file.content_type # None
        /\ file.data \in {TwoShots, NoFrames,
                           [empty |-> FALSE, opens |-> TRUE, frames |-> Film(<<Blank>>, 1)]}}

Intervals == (0..MaxInterval) \cup {default_frame_interval}

MaxCalls(video) ==
    (Len(video.frames) + default_frame_interval - 1) \div default_frame_interval

\* ------------------------------------------------------------------------
\* State
\* ------------------------------------------------------------------------
VARIABLES
    cache,      \* the lru_cache of get_cached_description
    recency,    \* every key ever looked up, least recently looked up first
    insOrder,   \* the keys in the cache, earliest inserted first
    call,       \* the last direct call of process_image_data (engine_failed:
                \* the engine was invoked and failed)
    prev,       \* the direct call right before it
    served,     \* the last /process-video request
    sampled,    \* the last direct call of extract_frames_from_video
    recognized, \* the last /process-image request
    task        \* the handler task of every connection

vars == <<cache, recency, insOrder, call, prev, served, sampled, recognized, task>>

\* the last results of the operations made one at a time
last == <<call, prev, served, sampled, recognized>>

NoCall ==
    [made |-> FALSE, image_data |-> EmptyBytes, raised |-> FALSE, value |-> None,
     inferences |-> 0, engine_failed |-> FALSE, lookups |-> << >>]

NoFile == [content_type |-> None, filename |-> <<"", "">>, data |-> NoData]

NoRequest ==
    [made |-> FALSE, file |-> NoFile, response |-> JSONResponse(0, None),
     called |-> FALSE, sampled |-> FALSE, frames |-> << >>, temp |-> NoTemp,
     down |-> {}, calls |-> 0, inferences |-> 0, lookups |-> << >>]

NoImage ==
    [made |-> FALSE, file |-> [content_type |-> None, data |-> EmptyBytes],
     engine_ok |-> TRUE, response |-> JSONResponse(0, None), calls |-> 0,
     inferences |-> 0, lookups |-> << >>]

NoSample ==
    [made |-> FALSE, video |-> NoData, frame_interval |-> 0, fs |-> FsOk,
     raised |-> FALSE, value |-> << >>, log |-> << >>, temp |-> NoTemp]

\* the caches description calls for pictures 1..k, in this order, build
WarmCache(k) ==
    [i \in 1..k |-> [key |-> hash_image(Jpeg(i)),
                     result |-> get_cached_description_body(hash_image(Jpeg(i)))]]

Warm == {0, maxsize - 1}

KeySeq(c) == [i \in DOMAIN c |-> c[i].key]

Init ==
    /\ \E k \in Warm : cache = WarmCache(k)
    /\ recency = KeySeq(cache)
    /\ insOrder = KeySeq(cache)
    /\ call = NoCall
    /\ prev = NoCall
    /\ served = NoRequest
    /\ sampled = NoSample
    /\ recognized = NoImage
    /\ task = [c \in Conns |-> Idle]

\* ------------------------------------------------------------------------
\* The history of the cache
\* ------------------------------------------------------------------------
Without(seq, k) == SelectSeq(seq, LAMBDA x : x # k)

Touch(rec, k) == Append(Without(rec, k), k)

RECURSIVE TouchAll(_, _)
TouchAll(rec, keys) ==
    IF keys = << >> THEN rec ELSE TouchAll(Touch(rec, Head(keys)), Tail(keys))

\* the insertion order after the cache c, with order ins, is asked for keys
RECURSIVE Inserted(_, _, _)
Inserted(ins, c, keys) ==
    IF keys = << >> THEN ins
    ELSE LET k == Head(keys)
             c2 == get_cached_description(c, k).cache
             kept == IF Len(c2) > Len(c) THEN ins
                     ELSE SelectSeq(ins, LAMBDA x : InCache(c2, x))
         IN  Inserted(IF InCache(c, k) THEN ins ELSE Append(kept, k), c2, Tail(keys))

\* ------------------------------------------------------------------------
\* Operations
\* ------------------------------------------------------------------------
\* process_image_data(image_data)
Describe(image_data, engine_ok) ==
    \E r \in {process_image_data(image_data, cache, engine_ok)} :
        /\ in_flight(task) = {}
        /\ UNCHANGED task
        /\ cache' = r.cache
        /\ recency' = TouchAll(recency, r.lookups)
        /\ insOrder' = Inserted(insOrder, cache, r.lookups)
        /\ prev' = call
        /\ call' = [made |-> TRUE, image_data |-> image_data, raised |-> r.raised,
                    value |-> r.value, inferences |-> r.inferences,
                    engine_failed |-> (r.inferences = 1 /\ ~engine_ok),
                    lookups |-> r.lookups]
        /\ served' = NoRequest
        /\ sampled' = NoSample
        /\ recognized' = NoImage

\* POST /process-video with the upload `file`
ProcessVideo(file, down, fs) ==
    \E r \in {process_video(file, cache, down, fs)} :
        /\ in_flight(task) = {}
        /\ UNCHANGED task
        /\ cache' = r.cache
        /\ recency' = TouchAll(recency, r.lookups)
        /\ insOrder' = Inserted(insOrder, cache, r.lookups)
        /\ call' = NoCall
        /\ prev' = NoCall
        /\ served' = [made |-> TRUE, file |-> file, response |-> r.response,
                      called |-> r.called, sampled |-> r.sampled, frames |-> r.frames,
                      temp |-> r.temp, down |-> down, calls |-> r.calls,
                      inferences |-> r.inferences, lookups |-> r.lookups]
        /\ sampled' = NoSample
        /\ recognized' = NoImage

\* extract_frames_from_video(video, frame_interval)
Sample(video, frame_interval, fs) ==
    \E r \in {extract_frames_from_video(video, frame_interval, fs)} :
        /\ in_flight(task) = {}
        /\ UNCHANGED task
        /\ sampled' = [made |-> TRUE, video |-> video, frame_interval |-> frame_interval,
                       fs |-> fs, raised |-> r.raised, value |-> r.value, log |-> r.log,
                       temp |-> r.temp]
        /\ call' = NoCall
        /\ prev' = NoCall
        /\ served' = NoRequest
        /\ recognized' = NoImage
        /\ UNCHANGED <<cache, recency, insOrder>>

\* POST /process-image with the upload `file`
ProcessImage(file, engine_ok) ==
    \E r \in {process_image(file, cache, engine_ok)} :
        /\ in_flight(task) = {}
        /\ UNCHANGED task
        /\ cache' = r.cache
        /\ recency' = TouchAll(recency, r.lookups)
        /\ insOrder' = Inserted(insOrder, cache, r.lookups)
        /\ call' = NoCall
        /\ prev' = NoCall
        /\ served' = NoRequest
        /\ sampled' = NoSample
        /\ recognized' = [made |-> TRUE, file |-> file, engine_ok |-> engine_ok,
                          response |-> r.response, calls |-> r.calls,
                          inferences |-> r.inferences, lookups |-> r.lookups]

\* a request for `route` arrives on connection c: the handler starts and is
\* suspended in "await file.read()"
Accept(c, route) ==
    /\ task[c].pc = "idle"
    /\ ~limit_reached(task)
    /\ task' = [task EXCEPT ![c] = [Idle EXCEPT !.pc = "reading", !.route = route]]
    /\ UNCHANGED <<cache, recency, insOrder, last>>

\* the body has been read: the handler of c is resumed with the upload
\* `file`, validates it and, for a video, samples it; it answers at once
\* when there is nothing to describe
Resume(c, file, frames) ==
    /\ task[c].pc = "reading"
    /\ event_loop_free(task)
    /\ task' = [task EXCEPT ![c] =
                   IF frames = << >> THEN Idle
                   ELSE [task[c] EXCEPT !.pc = "describing", !.frames = frames]]
    /\ UNCHANGED <<cache, recency, insOrder, last>>

\* process_image_data on the next frame, ending before model.generate:
\* empty bytes, bytes that are no image, or a description found in the cache
DescribeWithoutEngine(c) ==
    /\ task[c].pc = "describing"
    /\ Len(task[c].descriptions) < Len(task[c].frames)
    /\ ~reaches_engine(next_frame(task[c]), cache)
    /\ \E r \in {process_image_data(next_frame(task[c]), cache, TRUE)} :
           /\ cache' = r.cache
           /\ recency' = TouchAll(recency, r.lookups)
           /\ insOrder' = Inserted(insOrder, cache, r.lookups)
           /\ task' = [task EXCEPT ![c].descriptions = Append(@, r.value)]
    /\ UNCHANGED last

\* process_image_data on the next frame, from its start to the call of
\* model.generate: the key is looked up and not found
BeginInference(c) ==
    /\ task[c].pc = "describing"
    /\ Len(task[c].descriptions) < Len(task[c].frames)
    /\ reaches_engine(next_frame(task[c]), cache)
    /\ \E looked \in {get_cached_description(cache, hash_image(next_frame(task[c])))} :
           /\ cache' = looked.cache
           /\ recency' = Touch(recency, hash_image(next_frame(task[c])))
           /\ insOrder' = Inserted(insOrder, cache, <<hash_image(next_frame(task[c]))>>)
           /\ task' = [task EXCEPT ![c].pc = "inferring", ![c].looked = looked.result]
    /\ UNCHANGED last

\* model.generate returns or raises: process_image_data goes on to its end
EndInference(c, engine_ok) ==
    /\ task[c].pc = "inferring"
    /\ \E r \in {process_image_data_except(
                     process_image_data_looked(
                         next_frame(task[c]), hash_image(next_frame(task[c])),
                         [result |-> task[c].looked, cache |-> cache], engine_ok))} :
           /\ cache' = r.cache
           /\ task' = [task EXCEPT ![c].pc = "describing", ![c].looked = None,
                                   ![c].descriptions = Append(@, r.value)]
    /\ UNCHANGED <<recency, insOrder, last>>

\* every frame is described: the handler returns its response
Respond(c) ==
    /\ task[c].pc = "describing"
    /\ Len(task[c].descriptions) = Len(task[c].frames)
    /\ task' = [task EXCEPT ![c] = Idle]
    /\ UNCHANGED <<cache, recency, insOrder, last>>

DescribeAny == \E image_data \in Images, engine_ok \in BOOLEAN : Describe(image_data, engine_ok)

\* the uploads sent while the file system fails
FsUploads ==
    {file \in Uploads :
        /\ file.content_type = <<"video/", "mp4">>
        /\ file.data \in {TwoShots, NoFrames, Unopenable, BrokenShot}}

\* at most one frame per shot is described
ProcessVideoAny ==
    \/ \E file \in Uploads :
           \E down \in SUBSET (1..MaxCalls(file.data)) : ProcessVideo(file, down, FsOk)
    \/ \E file \in FsUploads, fs \in Fs \ {FsOk} : ProcessVideo(file, {}, fs)

\* every video and interval with the file system working or the deletion
\* failing; the other failures of the file system with the default interval
SampleAny ==
    \/ \E video \in Videos, frame_interval \in Intervals :
           \E fs \in {FsOk, [FsOk EXCEPT !.unlink = FALSE]} :
               Sample(video, frame_interval, fs)
    \/ \E video \in {TwoShots, NoFrames, Unopenable, BrokenShot} :
           \E fs \in Fs \ {FsOk, [FsOk EXCEPT !.unlink = FALSE]} :
               Sample(video, default_frame_interval, fs)

ProcessImageAny ==
    \E file \in ImageUploads, engine_ok \in BOOLEAN : ProcessImage(file, engine_ok)

ResumeAny ==
    \E c \in Conns :
        \/ /\ task[c].route = "image"
           /\ \E file \in ServerImages : Resume(c, file, image_frames(file))
        \/ /\ task[c].route = "video"
           /\ \E file \in ServerVideos : Resume(c, file, video_frames(file, FsOk))

\* the requests in flight, interleaved at their awaits
Serve ==
    \/ \E c \in Conns, route \in Routes : Accept(c, route)
    \/ ResumeAny
    \/ \E c \in Conns : DescribeWithoutEngine(c)
    \/ \E c \in Conns : BeginInference(c)
    \/ \E c \in Conns, engine_ok \in BOOLEAN : EndInference(c, engine_ok)
    \/ \E c \in Conns : Respond(c)

Next == DescribeAny \/ ProcessVideoAny \/ SampleAny \/ ProcessImageAny \/ Serve

Spec == Init /\ [][Next]_vars

\* direct calls of process_image_data only
SpecCache == Init /\ [][DescribeAny]_vars

\* the server has just started
InitCold == Init /\ cache = << >>

\* /process-video requests only
SpecVideo == InitCold /\ [][ProcessVideoAny]_vars

\* direct calls of the sampler only
SpecSampler == InitCold /\ [][SampleAny]_vars

\* /process-image requests only
SpecImage == InitCold /\ [][ProcessImageAny]_vars

\* concurrent requests on the connections
SpecServer == InitCold /\ [][Serve]_vars

\* ------------------------------------------------------------------------
\* Properties of the description cache (SpecCache)
\* ------------------------------------------------------------------------
Fingerprint(image_data) == <<"md5", image_data>>

\* the last direct call ran the engine and returned its description
Succeeded(c) ==
    c.made /\ ~c.raised /\ c.inferences = 1 /\ c.value = <<"description of", c.image_data>>

\* C1: two calls in a row on the same non-empty bytes, the first one's
\* inference succeeding, return the same description and run the inference
\* engine once in total: the second call is answered from the cache.
C1_SecondCallIsCacheHit ==
    (Succeeded(prev) /\ call.made /\ call.image_data = prev.image_data)
        => (call.value = prev.value /\ prev.inferences + call.inferences = 1)

\* C2: right after a successful call has stored its description d under the
\* fingerprint f of its input, looking f up in the cache gives d, not absent.
C2_StoredDescriptionIsFound ==
    Succeeded(call)
        => \E i \in DOMAIN cache :
               cache[i].key = Fingerprint(call.image_data) /\ cache[i].result = call.value

\* C3: the cache never holds more than maxsize (100) entries nor two entries
\* for one fingerprint.
C3_CacheBounded ==
    /\ Len(cache) <= maxsize
    /\ \A i, j \in DOMAIN cache : cache[i].key = cache[j].key => i = j

\* a full cache from which a warm entry has been evicted for a new picture
C3_Witness ==
    /\ Len(cache) = maxsize
    /\ InCache(cache, Fingerprint(Jpeg(maxsize + 1)))
    /\ \E n \in 1..(maxsize - 1) : ~InCache(cache, Fingerprint(Jpeg(n)))

\* the step is a call that asks a full cache for a key it does not hold
MissWhenFull ==
    /\ Len(cache) = maxsize
    /\ call'.made /\ call'.lookups # << >>
    /\ ~InCache(cache, call'.lookups[1])
    /\ cache' # cache

\* the key in the cache that has gone longest without being looked up
LeastRecentlyUsed ==
    recency[CHOOSE i \in DOMAIN recency :
                /\ InCache(cache, recency[i])
                /\ \A j \in 1..(i - 1) : ~InCache(cache, recency[j])]

\* C4 as claimed: a new key put into a full cache evicts the earliest
\* inserted entry, whether or not earlier keys were looked up again.
C4_EvictsEarliestInserted ==
    [][MissWhenFull => (Len(cache') = maxsize /\ ~InCache(cache', Head(insOrder)))]_vars

\* no key in the cache has been looked up again since it was inserted
NoneLookedUpAgain == SelectSeq(recency, LAMBDA k : InCache(cache, k)) = insOrder

\* C4 amended: a new key put into a full cache leaves it full and evicts
\* exactly the least recently looked-up entry, which is the earliest inserted
\* one when no key in the cache has been looked up again.
C4_EvictsLeastRecentlyUsed ==
    [][MissWhenFull =>
          /\ Len(cache') = maxsize
          /\ InCache(cache', call'.lookups[1])
          /\ \A i \in DOMAIN cache :
                 InCache(cache', cache[i].key) <=> cache[i].key # LeastRecentlyUsed
          /\ NoneLookedUpAgain => ~InCache(cache', Head(insOrder))]_vars

\* picture 1, the earliest inserted, was looked up again and has outlived
\* picture 2 in a full cache
C4_Witness ==
    /\ Len(cache) = maxsize
    /\ insOrder[1] = Fingerprint(Jpeg(1))
    /\ InCache(cache, Fingerprint(Jpeg(1)))
    /\ ~InCache(cache, Fingerprint(Jpeg(2)))

\* C9 as claimed: a call on b"" raises (EmptyInputError) instead of
\* returning a description.
C9_EmptyInputRaises ==
    (call.made /\ call.image_data = EmptyBytes) => call.raised

\* C9 amended: a call on b"" returns the error marker for "Image data is
\* empty" without a fingerprint, a cache lookup or an engine invocation; the
\* fingerprint of b"" is never a key of the cache.
C9_EmptyInputReturnsMarker ==
    /\ ~InCache(cache, Fingerprint(EmptyBytes))
    /\ (call.made /\ call.image_data = EmptyBytes) =>
           /\ ~call.raised
           /\ call.value = <<"Error: Failed to process image - ", "Image data is empty">>
           /\ call.inferences = 0
           /\ call.lookups = << >>

C9_Witness == call.made /\ call.image_data = EmptyBytes /\ Len(cache) > 0

\* ------------------------------------------------------------------------
\* Properties of the frame sampler (SpecSampler)
\* ------------------------------------------------------------------------
CeilDiv(t, k) == (t + k - 1) \div k

\* the video is written to its temporary file, opens, and every picture of
\* it converts
Decodes(s) ==
    /\ s.fs.create /\ s.fs.write /\ s.fs.close
    /\ s.video.opens
    /\ \A p \in DOMAIN s.video.frames : s.video.frames[p] # Broken

\* C5: for a video that decodes to T frames and an interval k >= 1 the
\* sampler returns the frames at decode positions 0, k, 2k, ... below T, in
\* this order: ceil(T/k) frames, one frame when k >= T >= 1, none when T = 0.
C5_SamplesEveryKth ==
    (sampled.made /\ Decodes(sampled) /\ sampled.frame_interval >= 1) =>
        LET T == Len(sampled.video.frames)
            k == sampled.frame_interval
        IN  /\ ~sampled.raised
            /\ Len(sampled.value) = CeilDiv(T, k)
            /\ Len(sampled.log) = Len(sampled.value)
            /\ \A j \in DOMAIN sampled.value :
                   /\ sampled.log[j] = (j - 1) * k
                   /\ sampled.log[j] < T
                   /\ sampled.value[j] =
                          (IF sampled.video.frames[(j - 1) * k + 1] = Blank
                           THEN EmptyBytes
                           ELSE <<"jpeg", sampled.video.frames[(j - 1) * k + 1][2]>>)
            /\ (k >= T /\ T >= 1) => Len(sampled.value) = 1
            /\ T = 0 => sampled.value = << >>

\* an interval that does not divide the number of frames
C5_Witness ==
    /\ sampled.made /\ sampled.video.opens /\ ~sampled.raised
    /\ sampled.frame_interval > 1
    /\ Len(sampled.video.frames) > sampled.frame_interval
    /\ Len(sampled.video.frames) % sampled.frame_interval # 0
    /\ Len(sampled.value) > 1

\* the video bytes are in the temporary file
Written(s) == s.fs.create /\ s.fs.write /\ s.fs.close

\* C11: on every exit path of the sampler, the write to temporary storage
\* failing included, the deletion of the temporary file the call created is
\* attempted: no file outlives the call unless the deletion itself fails.
C11_ReleaseAttemptedOnEveryExit ==
    (sampled.made /\ sampled.temp.created) =>
        /\ sampled.temp.attempted
        /\ sampled.temp.left => sampled.temp.failed

\* what the call answers when os.unlink succeeds, everything else the same
Primary(s) ==
    extract_frames_from_video(s.video, s.frame_interval, [s.fs EXCEPT !.unlink = TRUE])

\* C17: when the deletion of the temporary file fails, the failure is logged
\* and the call ends as it would have with the deletion succeeding: with the
\* frames when the video decodes, with the extraction error otherwise.
C17_ReleaseFailureIsNotPropagated ==
    (sampled.made /\ sampled.temp.failed) =>
        /\ sampled.temp.attempted
        /\ sampled.raised = Primary(sampled).raised
        /\ sampled.value = Primary(sampled).value
        /\ (Decodes(sampled) /\ sampled.frame_interval >= 1) =>
               /\ ~sampled.raised
               /\ Len(sampled.value) =
                      CeilDiv(Len(sampled.video.frames), sampled.frame_interval)
        /\ (Written(sampled) /\ ~sampled.video.opens) =>
               /\ sampled.raised
               /\ sampled.value = <<"Failed to extract frames: ", "Failed to open video file">>
        /\ ~Written(sampled) =>
               /\ sampled.raised
               /\ sampled.value[1] = "Failed to extract frames: "

\* the deletion failed after two frames were sampled
C17_Witness ==
    /\ sampled.made /\ sampled.temp.failed /\ sampled.temp.left
    /\ ~sampled.raised
    /\ Len(sampled.value) >= 2

\* the outcome the sampler reports for a failure while extracting
IsExtractionError(s) == s.raised /\ s.value[1] = "Failed to extract frames: "

\* C18 as claimed: a container that cannot be opened is reported as an
\* error of its own kind, not as the extraction error decode failures get.
C18_OpenErrorIsNotExtractionError ==
    (sampled.made /\ Written(sampled) /\ ~sampled.video.opens) =>
        (sampled.raised /\ ~IsExtractionError(sampled))

\* C18 amended: a container that cannot be opened is reported as the same
\* extraction error as a decode failure, "Failed to extract frames: " and
\* the cause; the cause "Failed to open video file" alone tells it apart.
C18_OpenFailureIsAnExtractionError ==
    (sampled.made /\ Written(sampled)) =>
        /\ ~sampled.video.opens =>
               /\ sampled.raised
               /\ sampled.value = <<"Failed to extract frames: ", "Failed to open video file">>
        /\ (sampled.video.opens /\ sampled.raised) =>
               /\ Len(sampled.value) = 2
               /\ sampled.value[1] = "Failed to extract frames: "
               /\ sampled.value[2] # "Failed to open video file"

\* a container that cannot be opened, its bytes written and deleted again
C18_Witness ==
    /\ sampled.made /\ Written(sampled) /\ ~sampled.video.opens
    /\ sampled.raised
    /\ sampled.temp.attempted /\ ~sampled.temp.left

\* ------------------------------------------------------------------------
\* Properties of /process-video (SpecVideo)
\* ------------------------------------------------------------------------
Answered == served.made /\ served.response.status_code = 200

Descriptions == served.response.content.descriptions

IsErrorMarker(text) == Len(text) > 0 /\ text[1] = "Error: Failed to process image - "

\* the call made for the j-th frame fails
FrameFails(j) ==
    \/ Len(served.frames[j]) = 0
    \/ served.frames[j][1] # "jpeg"
    \/ j \in served.down

\* C6 as claimed: every entry's timestamp is its frame index times the
\* sampling interval (30).
C6_TimestampIsIndexTimesInterval ==
    Answered =>
        \A j \in DOMAIN Descriptions :
            Descriptions[j].timestamp = Descriptions[j].frame * default_frame_interval

\* C6 amended: every entry's timestamp is its frame index (index * 1.0).
C6_TimestampIsIndex ==
    Answered =>
        \A j \in DOMAIN Descriptions : Descriptions[j].timestamp = Descriptions[j].frame

C6_Witness == Answered /\ Len(Descriptions) >= 2

\* C7: when the sampler returns n >= 1 frames the response is the list of n
\* entries whose j-th entry (from 0) has frame index j and the description
\* made from the j-th frame.
C7_OneEntryPerFrameInOrder ==
    (served.made /\ served.sampled /\ Len(served.frames) >= 1) =>
        /\ Answered
        /\ Len(Descriptions) = Len(served.frames)
        /\ \A j \in DOMAIN Descriptions :
               /\ Descriptions[j].frame = j - 1
               /\ \/ Descriptions[j].description = <<"description of", served.frames[j]>>
                  \/ IsErrorMarker(Descriptions[j].description)

\* two different frames, both described
C7_Witness ==
    /\ Answered
    /\ Len(served.frames) >= 2
    /\ served.frames[1] # served.frames[2]
    /\ ~FrameFails(1) /\ ~FrameFails(2)

\* C8: whichever frames fail (bytes that are no image, engine failure), the
\* response has one entry per frame in order, an error marker for each
\* failing frame and the description for every other frame.
C8_FailingFramesAreIsolated ==
    (served.made /\ served.sampled /\ Len(served.frames) >= 1) =>
        /\ Answered
        /\ Len(Descriptions) = Len(served.frames)
        /\ \A j \in DOMAIN Descriptions :
               /\ Descriptions[j].frame = j - 1
               /\ IF FrameFails(j)
                  THEN IsErrorMarker(Descriptions[j].description)
                  ELSE Descriptions[j].description = <<"description of", served.frames[j]>>

\* a frame that is no image, before a good one
C8_Witness ==
    /\ Answered
    /\ \E j, k \in DOMAIN served.frames :
           /\ j < k
           /\ Len(served.frames[j]) = 0
           /\ ~FrameFails(k)

\* C10: when the sampler returns no frame the answer is the client error
\* "No frames extracted", never a success, and nothing is described.
C10_NoFramesIsAnError ==
    (served.made /\ served.sampled /\ Len(served.frames) = 0) =>
        /\ served.response.status_code = 400
        /\ DOMAIN served.response.content = {"error"}
        /\ served.response.content.error = <<"No frames extracted">>
        /\ served.calls = 0
        /\ served.inferences = 0
        /\ served.lookups = << >>

C10_Witness == served.made /\ served.sampled /\ Len(served.frames) = 0

\* the declared content type starts with video/ or the filename ends in
\* .mp4, .mov or .avi
VideoLike(file) ==
    \/ (file.content_type # <<"None">> /\ file.content_type[1] = "video/")
    \/ file.filename[2] \in {".mp4", ".mov", ".avi"}

\* the request went no further than the validations
NothingStarted ==
    /\ ~served.called
    /\ ~served.temp.created
    /\ served.calls = 0 /\ served.inferences = 0 /\ served.lookups = << >>

\* C15: the handler checks for empty input first, then for a video-like
\* content type or filename suffix, then samples; a request either check
\* rejects (EmptyInputError, InvalidTypeError) creates no temporary file and
\* describes nothing; non-empty input whose content type starts with video/
\* or whose filename ends in .mp4, .mov or .avi is accepted.
C15_ValidatesInOrderBeforeSampling ==
    served.made =>
        /\ served.file.data.empty =>
               /\ served.response.status_code = 400
               /\ served.response.content.error = <<"Empty file received">>
               /\ NothingStarted
        /\ (~served.file.data.empty /\ ~served.called) =>
               /\ served.response.status_code = 400
               /\ served.response.content.error[1] = "Invalid file type: "
               /\ NothingStarted
        /\ (~served.file.data.empty /\ VideoLike(served.file)) => served.called

\* ------------------------------------------------------------------------
\* Properties of process_image_data as a whole (SpecCache)
\* ------------------------------------------------------------------------
\* the call ended in a failure: no input, bytes that are no image, or the
\* engine failing
Failed(c) ==
    \/ c.image_data = << >>
    \/ c.image_data[1] # "jpeg"
    \/ c.engine_failed

\* C16: a call that fails (empty input, bytes that are no image, inference
\* failure) stores no description: no entry of the cache ever holds an error
\* marker, and the next call on the same bytes looks the key up and is not
\* answered from the cache (it runs the engine again when the bytes are an
\* image).
C16_FailuresAreNotCached ==
    /\ \A i \in DOMAIN cache : ~IsErrorMarker(cache[i].result)
    /\ (prev.made /\ Failed(prev) /\ call.made /\ call.image_data = prev.image_data
            /\ call.image_data # << >>) =>
           /\ call.lookups = <<Fingerprint(call.image_data)>>
           /\ call.image_data[1] = "jpeg" => call.inferences = 1
           /\ (call.image_data[1] = "jpeg" /\ ~call.engine_failed) =>
                  ~IsErrorMarker(call.value)

\* the engine failed on an image, and the next call on it was described
C16_Witness ==
    /\ prev.made /\ prev.engine_failed /\ IsErrorMarker(prev.value)
    /\ call.image_data = prev.image_data
    /\ Succeeded(call)
    /\ InCache(cache, Fingerprint(call.image_data))

\* C19: process_image_data never raises: it returns the description, or, on
\* every failure (empty bytes, bytes that are no image, engine failure), a
\* string beginning with "Error: Failed to process image - "; a call invokes
\* the engine at most once.
C19_TotalWithAtMostOneInference ==
    call.made =>
        /\ ~call.raised
        /\ call.inferences \in {0, 1}
        /\ IF Failed(call)
           THEN IsErrorMarker(call.value)
           ELSE call.value = <<"description of", call.image_data>> /\ call.inferences = 1
        /\ (call.image_data = << >> \/ call.image_data[1] # "jpeg") => call.inferences = 0

\* the engine was invoked once and failed, in a call that follows another
C19_Witness ==
    /\ call.made /\ call.engine_failed
    /\ call.inferences = 1
    /\ IsErrorMarker(call.value)
    /\ prev.made

\* ------------------------------------------------------------------------
\* Properties of /process-image (SpecImage)
\* ------------------------------------------------------------------------
\* the upload passes the handler's validation
Valid(file) == file.data # << >> /\ file.content_type \in {<<"image/", "jpeg">>, <<"image/", "png">>}

\* the bytes are an image and the engine answers
Processes(req) == Len(req.file.data) > 0 /\ req.file.data[1] = "jpeg" /\ req.engine_ok

\* C12: /process-image answers {"recognized_text": description} only when
\* validation and processing both succeed; on a validation failure (empty
\* body, unsupported content type) and on a processing failure (bytes that
\* are no image, inference failure) it answers {"error": message} with a
\* 4xx/5xx status.
C12_RecognizedTextOnlyOnSuccess ==
    recognized.made =>
        IF Valid(recognized.file) /\ Processes(recognized)
        THEN /\ recognized.response.status_code = 200
             /\ DOMAIN recognized.response.content = {"recognized_text"}
             /\ recognized.response.content.recognized_text =
                    <<"description of", recognized.file.data>>
        ELSE /\ DOMAIN recognized.response.content = {"error"}
             /\ recognized.response.status_code >= 400

\* ------------------------------------------------------------------------
\* Properties of the server under concurrent requests (SpecServer)
\* ------------------------------------------------------------------------
\* the handlers inside model.generate
Inferring == {c \in Conns : task[c].pc = "inferring"}

\* C13: however image and video requests interleave, the number of
\* inference invocations in progress at the same time stays within the
\* ceiling: one per event loop, which is within the configured
\* limit_concurrency (20), as is the number of requests in flight.
C13_InferencesWithinCeiling ==
    /\ Cardinality(Inferring) <= 1
    /\ Cardinality(Inferring) <= limit_concurrency
    /\ Cardinality({c \in Conns : task[c].pc # "idle"}) <= limit_concurrency

\* a video request inside model.generate while an image request is in
\* flight, waiting for the thread
C13_Witness ==
    \E c, d \in Conns :
        /\ task[c].pc = "inferring" /\ task[c].route = "video"
        /\ Len(task[c].descriptions) >= 1
        /\ task[d].pc = "reading" /\ task[d].route = "image"

\* C14: under any interleaving of the describe calls of the requests in
\* flight the cache holds at most maxsize entries, one per fingerprint, and
\* every entry maps its fingerprint to the description produced for the
\* bytes with that fingerprint: once a request has got the description of
\* its frame, the entry of the frame's fingerprint holds that description.
C14_CacheMappingIntact ==
    /\ Len(cache) <= maxsize
    /\ \A i, j \in DOMAIN cache : cache[i].key = cache[j].key => i = j
    /\ \A i \in DOMAIN cache :
           cache[i].result # <<"None">> =>
               cache[i].result = <<"description of", cache[i].key[2]>>
    /\ \A c \in Conns : \A j \in DOMAIN task[c].descriptions :
           task[c].descriptions[j] = <<"description of", task[c].frames[j]>> =>
               \A i \in DOMAIN cache :
                   cache[i].key = <<"md5", task[c].frames[j]>> =>
                       cache[i].result = task[c].descriptions[j]

====
